---- MODULE Spec2Model ----
(***************************************************************************)
(* Decision node of the soothing-device controller (src/decision/main.c). *)
(*                                                                         *)
(*   Spec     the hill-climbing controller: one action per call of         *)
(*            controller_step(bpm_now, cry_now)                            *)
(*   SpecRx   the framed transport: send_message_raw / receive_message     *)
(*            over the UART byte stream                                    *)
(*   SpecReq  request_heartbeat and request_crying against nodes that      *)
(*            answer asynchronously, with other frames on the bus          *)
(*   SpecCall request_heartbeat with the loop of drain_my_rx taken one      *)
(*            iteration at a time, on a bus that never falls silent, and   *)
(*            a master that always takes its next step                     *)
(*   SpecPing the three boot_ping calls of main                            *)
(*   SpecLoop the decision mode of main: warm-up loop and control loop     *)
(*   SpecEdge controller_step with vitals at the limits of the regime test *)
(*   SpecCalm controller_step in a run whose every pending move is judged  *)
(*            improved, called again and again by the control loop         *)
(***************************************************************************)
EXTENDS Integers, Sequences, FiniteSets, TLC

\* ------------------------------------------------------------------------
\* Program constants
\* ------------------------------------------------------------------------
MSTR == 0
HRTBT == 1
CRY == 2
MTR == 3
MAX_PAY == 5
thresholdBPM == 10
thresholdCRY == 1
\* delays of the control loop, in milliseconds
HEARTBEAT_DELAY == 14000
CRYING_DELAY == 4000
CONVERGENCE_DELAY == 4000
\* the poll period the source declares for the vitals, in milliseconds
VITALS_POLL_MS == 100

\* ASCII codes of the command bytes
ChA == 65
ChC == 67
ChH == 72
ChM == 77

\* ------------------------------------------------------------------------
\* Bounds of the model
\* ------------------------------------------------------------------------
\* the monotonic clock stops advancing at MaxNow
MaxNow == 2

\* frames written to the byte stream in one run of SpecRx
MaxFrames == 2
\* iterations of the wait loop of request_heartbeat (WAIT_MS in the source)
MaxWait == 2
\* iterations of the wait loop of request_crying (TIMEOUT in the source)
MaxWaitCry == 1
\* iterations of the loop of boot_ping (BOOT_PING_TOTAL_MS in the source)
MaxPingTotal == 4
\* iterations between two probes of boot_ping (BOOT_PING_RETRY_MS)
MaxPingRetry == 2
\* iterations of the warm-up loop of the decision mode (50 in the source)
MaxWarm == 2
\* iterations of the control loop in one run of SpecLoop
MaxIter == 8
\* calls of controller_step in one run of SpecEdge
MaxEdgeSteps == 4
\* largest fall of the heart rate between two calls in a run of SpecCalm
MaxDrop == 12
\* requests issued in one run of SpecReq
MaxReq == 3
\* frames other than sensor replies that reach the master in one run
MaxNoise == 1

\* vitals handed to controller_step: 0 (no reading), crying band and
\* heart-rate band values, drops >= 10, changes <= 3, jumps >= 30
BpmVals == {0, 140, 150, 170, 200}
CryVals == {0, 16, 17}

\* vitals on both sides of the limits of the regime test
BpmEdge == {149, 150}
CryEdge == {15, 16, 51, 52}

\* heart rate handed to the first call in a run of SpecCalm
BpmStart == {200}

Grid == 0..4
Cells == Grid \X Grid

VARIABLES
  \* controller statics (main.c 405-435)
  curA, curF, is_crying_activated, ctrl_lastBPM, ctrl_lastCRY,
  prevA, prevF, anchorA_mem, anchorF_mem,
  triedLeftFromAnchor, triedUpFromAnchor, lastMoveDir, hit_wall,
  anchorMatrix, anchorLevel, panic_mode,
  g_algo_start_ms, g_calm_reached, g_calm_elapsed_ms,
  \* last motor command (main.c 36-37)
  g_amp, g_freq,
  \* CLOCK_MONOTONIC in model ticks
  now,
  \* motor frames {'M', amp, freq} written by the latest controller_step
  sent,
  \* the branches of controller_step the latest call went through, in order
  trace,
  \* the arguments of the latest controller_step call (-1 before the first)
  bpm_in, cry_in,
  \* bytes waiting in the UART receive FIFO of the master
  rx,
  \* decoded message (main.c 40-42) and the value of the latest
  \* receive_message call
  g_src, g_len, g_payload, ret,
  \* arguments of the send_message_raw calls whose bytes went into rx, in
  \* order, and the number of receive_message calls that found data
  frames, nrecv,
  \* request_heartbeat / request_crying: position, loop counter, number of
  \* the request in progress, returned value, node asked by the latest call;
  \* requests the heartbeat and the crying node have not answered; number of
  \* other frames that have reached the master
  pc, waited, reqNo, result, reqDst, hbInbox, cryInbox, noise,
  \* boot_ping: position, number of calls started, node probed, loop
  \* counters, returned value, probe frames sent by the call; probes the
  \* nodes have not acknowledged
  pingPc, pingNo, pingDst, pingWaited, since_send, pingResult, probes,
  ackInbox,
  \* decision mode of main: position, results of the three boot probes,
  \* the sampled vitals, the recorded step time, the warm-up counter
  lpc, hb_ok, cry_ok, mtr_ok, last_bpm, last_cry, last_step_ms, warm_i,
  \* observers of the decision mode: iterations of the control loop run,
  \* the clock at the recorded step time, request frames sent to the
  \* heartbeat and crying nodes, command frames sent to the motor node,
  \* whether the latest iteration called controller_step, heartbeat polls
  \* since the previous call, the latest successfully sampled vitals
  iter, stepTime, hbReqs, cryReqs, mtrCmds, stepped, polls, goodBpm, goodCry

ctlVars == <<curA, curF, is_crying_activated, ctrl_lastBPM, ctrl_lastCRY,
             prevA, prevF, anchorA_mem, anchorF_mem,
             triedLeftFromAnchor, triedUpFromAnchor, lastMoveDir, hit_wall,
             anchorMatrix, anchorLevel, panic_mode,
             g_algo_start_ms, g_calm_reached, g_calm_elapsed_ms,
             g_amp, g_freq, now, sent, trace, bpm_in, cry_in>>

busVars == <<rx, g_src, g_len, g_payload, ret>>

rxVars == <<frames, nrecv>>

reqVars == <<pc, waited, reqNo, result, reqDst, hbInbox, cryInbox, noise>>

pingVars == <<pingPc, pingNo, pingDst, pingWaited, since_send, pingResult,
              probes, ackInbox>>

loopVars == <<lpc, hb_ok, cry_ok, mtr_ok, last_bpm, last_cry, last_step_ms,
              warm_i, iter, stepTime, hbReqs, cryReqs, mtrCmds, stepped,
              polls, goodBpm, goodCry>>

vars == <<ctlVars, busVars, rxVars, reqVars, pingVars, loopVars>>

\* the controller statics as one record, so that controller_step can be
\* written as the sequence of assignments it is in the source
St ==
  [curA |-> curA, curF |-> curF,
   is_crying_activated |-> is_crying_activated,
   ctrl_lastBPM |-> ctrl_lastBPM, ctrl_lastCRY |-> ctrl_lastCRY,
   prevA |-> prevA, prevF |-> prevF,
   anchorA_mem |-> anchorA_mem, anchorF_mem |-> anchorF_mem,
   triedLeftFromAnchor |-> triedLeftFromAnchor,
   triedUpFromAnchor |-> triedUpFromAnchor,
   lastMoveDir |-> lastMoveDir, hit_wall |-> hit_wall,
   anchorMatrix |-> anchorMatrix, anchorLevel |-> anchorLevel,
   panic_mode |-> panic_mode,
   g_algo_start_ms |-> g_algo_start_ms,
   g_calm_reached |-> g_calm_reached,
   g_calm_elapsed_ms |-> g_calm_elapsed_ms,
   g_amp |-> g_amp, g_freq |-> g_freq,
   sent |-> sent, trace |-> trace]

abs(x) == IF x < 0 THEN -x ELSE x

\* the step went through branch b
Mark(s, b) == [s EXCEPT !.trace = Append(@, b)]

\* ------------------------------------------------------------------------
\* command_motor: remember the command and send {'M', amp, freq} to MTR
\* ------------------------------------------------------------------------
command_motor(s, amp, freq) ==
  [s EXCEPT !.g_amp = amp, !.g_freq = freq,
            !.sent = Append(@, <<amp, freq>>)]

\* clamp of one grid index in controller_command_cell
ClampIndex_Missing(i) == i

ClampIndex(i) == IF i < 0 THEN 0 ELSE IF i > 4 THEN 4 ELSE i

\* the calm latch at the end of controller_command_cell
CalmLatch_Relatch(s, t) ==
  IF s.panic_mode = 0 /\ s.g_algo_start_ms > 0 /\ s.curA = 0 /\ s.curF = 0
  THEN [s EXCEPT !.g_calm_reached = 1,
                 !.g_calm_elapsed_ms = t - s.g_algo_start_ms]
  ELSE s

CalmLatch_InPanic(s, t) ==
  IF s.g_calm_reached = 0 /\ s.g_algo_start_ms > 0
     /\ s.curA = 0 /\ s.curF = 0
  THEN [s EXCEPT !.g_calm_reached = 1,
                 !.g_calm_elapsed_ms = t - s.g_algo_start_ms]
  ELSE s

CalmLatch(s, t) ==
  IF s.g_calm_reached = 0 /\ s.panic_mode = 0 /\ s.g_algo_start_ms > 0
     /\ s.curA = 0 /\ s.curF = 0
  THEN [s EXCEPT !.g_calm_reached = 1,
                 !.g_calm_elapsed_ms = t - s.g_algo_start_ms]
  ELSE s

\* controller_command_cell(aIndex, fIndex), called at clock value t
controller_command_cell(s, aIndex, fIndex, t) ==
  LET a == ClampIndex(aIndex)
      f == ClampIndex(fIndex)
      s1 == [s EXCEPT !.curA = a, !.curF = f]
      s2 == command_motor(s1, s1.curA, s1.curF)
  IN CalmLatch(s2, t)

\* ------------------------------------------------------------------------
\* improvement tests
\* ------------------------------------------------------------------------
heartbeat_improved_Strict(s, bpm_now) ==
  IF s.ctrl_lastBPM <= 0 THEN 0
  ELSE IF s.ctrl_lastBPM - bpm_now > thresholdBPM THEN 1
  ELSE 0

heartbeat_improved(s, bpm_now) ==
  IF s.ctrl_lastBPM <= 0 THEN 0
  ELSE IF s.ctrl_lastBPM - bpm_now >= thresholdBPM THEN 1
  ELSE 0

crying_improved(s, cry_now) ==
  IF cry_now <= thresholdCRY THEN 1
  ELSE IF s.ctrl_lastCRY > 0 /\ s.ctrl_lastCRY - cry_now >= thresholdCRY THEN 1
  ELSE 0

\* ------------------------------------------------------------------------
\* register_anchor
\* ------------------------------------------------------------------------
register_anchor_Again(s, a, f) ==
  IF a < 0 \/ a > 4 \/ f < 0 \/ f > 4 THEN s
  ELSE [s EXCEPT !.anchorLevel = @ + 1,
                 !.anchorMatrix[<<a, f>>] = 10 - (s.anchorLevel + 1)]

register_anchor_FromNine(s, a, f) ==
  IF a < 0 \/ a > 4 \/ f < 0 \/ f > 4 THEN s
  ELSE IF s.anchorMatrix[<<a, f>>] = 0
       THEN [s EXCEPT !.anchorLevel = @ + 1,
                      !.anchorMatrix[<<a, f>>] = 9 - (s.anchorLevel + 1)]
       ELSE s

register_anchor(s, a, f) ==
  IF a < 0 \/ a > 4 \/ f < 0 \/ f > 4 THEN s
  ELSE IF s.anchorMatrix[<<a, f>>] = 0
       THEN [s EXCEPT !.anchorLevel = @ + 1,
                      !.anchorMatrix[<<a, f>>] = 10 - (s.anchorLevel + 1)]
       ELSE s

\* ------------------------------------------------------------------------
\* controller_step, in the order of the source
\* ------------------------------------------------------------------------
\* panic detection: big_jump and the one-way entry into panic_mode
BigJump_Twenty(s, bpm_now) ==
  IF s.ctrl_lastBPM > 0 THEN bpm_now - s.ctrl_lastBPM >= 20 ELSE FALSE

BigJump(s, bpm_now) ==
  IF s.ctrl_lastBPM > 0 THEN bpm_now - s.ctrl_lastBPM >= 30 ELSE FALSE

PanicDetect(s, bpm_now) ==
  IF s.panic_mode = 0 /\ BigJump(s, bpm_now)
  THEN [s EXCEPT !.panic_mode = 1]
  ELSE s

Record(s, bpm_now, cry_now) ==
  [s EXCEPT !.ctrl_lastBPM = bpm_now, !.ctrl_lastCRY = cry_now]

\* panic path: command (0,0), record the vitals, return
PanicStep_HoldCell(s, bpm_now, cry_now, t) ==
  Record(controller_command_cell(Mark(s, "panic"), s.curA, s.curF, t),
         bpm_now, cry_now)

PanicStep_Regime(s, bpm_now, cry_now, t) ==
  Record(controller_command_cell(
           [Mark(s, "panic") EXCEPT
              !.is_crying_activated =
                 IF bpm_now < 150 /\ cry_now < 52 /\ cry_now > 15
                 THEN 1 ELSE 0],
           0, 0, t),
         bpm_now, cry_now)

PanicStep(s, bpm_now, cry_now, t) ==
  Record(controller_command_cell(Mark(s, "panic"), 0, 0, t),
         bpm_now, cry_now)

\* regime selection
CryingRegime_Inclusive(bpm_now, cry_now) ==
  bpm_now < 150 /\ (cry_now <= 52 /\ cry_now > 15)

CryingRegime(bpm_now, cry_now) ==
  bpm_now < 150 /\ (cry_now < 52 /\ cry_now > 15)

\* the "same" flag: stable after a LEFT move
Same(s, crying, bpm_now, cry_now) ==
  IF s.ctrl_lastBPM > 0
  THEN LET bpm_delta == abs(bpm_now - s.ctrl_lastBPM)
           cry_delta == IF s.ctrl_lastCRY >= 0
                        THEN abs(cry_now - s.ctrl_lastCRY) ELSE 0
       IN IF ~crying
          THEN IF bpm_delta <= 3 /\ s.lastMoveDir = 1 THEN 1 ELSE 0
          ELSE IF cry_delta = 0 /\ s.lastMoveDir = 1 THEN 1 ELSE 0
  ELSE 0

\* anchor sync when idle
AnchorSync_KeepFlags(s) ==
  IF s.lastMoveDir = 0 /\ (s.anchorA_mem # s.curA \/ s.anchorF_mem # s.curF)
  THEN register_anchor([s EXCEPT !.anchorA_mem = s.curA,
                                 !.anchorF_mem = s.curF],
                       s.curA, s.curF)
  ELSE s

AnchorSync_AnyDir(s) ==
  IF s.anchorA_mem # s.curA \/ s.anchorF_mem # s.curF
  THEN register_anchor([s EXCEPT !.anchorA_mem = s.curA,
                                 !.anchorF_mem = s.curF,
                                 !.triedLeftFromAnchor = 0,
                                 !.triedUpFromAnchor = 0],
                       s.curA, s.curF)
  ELSE s

AnchorSync(s) ==
  IF s.lastMoveDir = 0 /\ (s.anchorA_mem # s.curA \/ s.anchorF_mem # s.curF)
  THEN register_anchor([s EXCEPT !.anchorA_mem = s.curA,
                                 !.anchorF_mem = s.curF,
                                 !.triedLeftFromAnchor = 0,
                                 !.triedUpFromAnchor = 0],
                       s.curA, s.curF)
  ELSE s

\* improved branch of a pending move
ImprovedStep_LeftOnly(s, bpm_now, cry_now, t) ==
  LET anchorA == s.curA
      anchorF == s.curF
      s1 == register_anchor(Mark(s, "improved"), anchorA, anchorF)
      s2 == IF s1.anchorA_mem # anchorA \/ s1.anchorF_mem # anchorF
            THEN [s1 EXCEPT !.anchorA_mem = anchorA, !.anchorF_mem = anchorF,
                            !.triedLeftFromAnchor = 0,
                            !.triedUpFromAnchor = 0]
            ELSE s1
      s3 == [s2 EXCEPT !.prevA = anchorA, !.prevF = anchorF]
      s4 == IF anchorF > 0
            THEN controller_command_cell(
                   [s3 EXCEPT !.lastMoveDir = 1, !.triedLeftFromAnchor = 1],
                   anchorA, anchorF - 1, t)
            ELSE s3
  IN Record(s4, bpm_now, cry_now)

ImprovedStep_UpAtTop(s, bpm_now, cry_now, t) ==
  LET anchorA == s.curA
      anchorF == s.curF
      s1 == register_anchor(Mark(s, "improved"), anchorA, anchorF)
      s2 == IF s1.anchorA_mem # anchorA \/ s1.anchorF_mem # anchorF
            THEN [s1 EXCEPT !.anchorA_mem = anchorA, !.anchorF_mem = anchorF,
                            !.triedLeftFromAnchor = 0,
                            !.triedUpFromAnchor = 0]
            ELSE s1
      s3 == [s2 EXCEPT !.prevA = anchorA, !.prevF = anchorF]
      s4 == IF anchorF > 0
            THEN controller_command_cell(
                   [s3 EXCEPT !.lastMoveDir = 1, !.triedLeftFromAnchor = 1],
                   anchorA, anchorF - 1, t)
            ELSE controller_command_cell(
                   [s3 EXCEPT !.lastMoveDir = 2], anchorA - 1, anchorF, t)
  IN Record(s4, bpm_now, cry_now)

ImprovedStep(s, bpm_now, cry_now, t) ==
  LET anchorA == s.curA
      anchorF == s.curF
      s1 == register_anchor(Mark(s, "improved"), anchorA, anchorF)
      s2 == IF s1.anchorA_mem # anchorA \/ s1.anchorF_mem # anchorF
            THEN [s1 EXCEPT !.anchorA_mem = anchorA, !.anchorF_mem = anchorF,
                            !.triedLeftFromAnchor = 0,
                            !.triedUpFromAnchor = 0]
            ELSE s1
      s3 == [s2 EXCEPT !.prevA = anchorA, !.prevF = anchorF]
      s4 == IF anchorF > 0
            THEN controller_command_cell(
                   [s3 EXCEPT !.lastMoveDir = 1, !.triedLeftFromAnchor = 1],
                   anchorA, anchorF - 1, t)
            ELSE IF anchorA > 0
            THEN controller_command_cell(
                   [s3 EXCEPT !.lastMoveDir = 2], anchorA - 1, anchorF, t)
            ELSE s3
  IN Record(s4, bpm_now, cry_now)

\* reverse-diagonal probe
ReverseDiagonal_KeepTarget(s, bpm_now, cry_now, t) ==
  LET anchorA == s.prevA
      anchorF == s.prevF
      s1 == [Mark(s, "reverse_diagonal") EXCEPT
               !.lastMoveDir = 2, !.triedUpFromAnchor = 1]
  IN Record(controller_command_cell(s1, anchorA - 1, anchorF, t),
            bpm_now, cry_now)

ReverseDiagonal(s, bpm_now, cry_now, t) ==
  LET anchorA == s.prevA
      anchorF == s.prevF
      s1 == [Mark(s, "reverse_diagonal") EXCEPT
               !.lastMoveDir = 2, !.triedUpFromAnchor = 1,
               !.prevA = s.curA, !.prevF = s.curF]
  IN Record(controller_command_cell(s1, anchorA - 1, anchorF, t),
            bpm_now, cry_now)

\* explicit backtrack to (prevA, prevF)
Backtrack_Silent(s, bpm_now, cry_now, t) ==
  LET anchorA == s.prevA
      anchorF == s.prevF
      s0 == Mark(s, "backtrack")
      s2 == [s0 EXCEPT !.curA = anchorA, !.curF = anchorF,
                       !.lastMoveDir = 0]
  IN Record(s2, bpm_now, cry_now)

Backtrack_KeepDir(s, bpm_now, cry_now, t) ==
  LET anchorA == s.prevA
      anchorF == s.prevF
      s0 == Mark(s, "backtrack")
      s1 == IF anchorA # s.curA \/ anchorF # s.curF
            THEN controller_command_cell(s0, anchorA, anchorF, t)
            ELSE s0
      s2 == [s1 EXCEPT !.curA = anchorA, !.curF = anchorF]
  IN Record(s2, bpm_now, cry_now)

Backtrack(s, bpm_now, cry_now, t) ==
  LET anchorA == s.prevA
      anchorF == s.prevF
      s0 == Mark(s, "backtrack")
      s1 == IF anchorA # s.curA \/ anchorF # s.curF
            THEN controller_command_cell(s0, anchorA, anchorF, t)
            ELSE s0
      s2 == [s1 EXCEPT !.curA = anchorA, !.curF = anchorF,
                       !.lastMoveDir = 0]
  IN Record(s2, bpm_now, cry_now)

\* the code after the idle block: "we have a last move"
PendingStep(s, improved, same, bpm_now, cry_now, t) ==
  IF improved = 1 THEN ImprovedStep(s, bpm_now, cry_now, t)
  ELSE IF same = 1 /\ s.lastMoveDir = 1 /\ s.prevA > 0
       THEN ReverseDiagonal(s, bpm_now, cry_now, t)
       ELSE Backtrack(s, bpm_now, cry_now, t)

\* the idle block (lastMoveDir == 0); the two wall branches do not return
\* and run on into the code after the block
IdleStep(s0, improved, same, bpm_now, cry_now, t) ==
  LET s == [s0 EXCEPT !.prevA = s0.curA, !.prevF = s0.curF]
  IN IF s.triedLeftFromAnchor = 0 /\ s.curF = 0
     THEN PendingStep(
            controller_command_cell(
              [Mark(s, "wall_left") EXCEPT !.hit_wall = 1],
              s.curA - 1, s.curF, t),
            improved, same, bpm_now, cry_now, t)
     ELSE IF s.triedUpFromAnchor = 0 /\ s.curA = 0
     THEN PendingStep(
            controller_command_cell(
              [Mark(s, "wall_up") EXCEPT !.hit_wall = 1],
              s.curA, s.curF - 1, t),
            improved, same, bpm_now, cry_now, t)
     ELSE IF s.triedLeftFromAnchor = 0 /\ s.curF > 0
     THEN Record(controller_command_cell(
                   [Mark(s, "left") EXCEPT
                      !.lastMoveDir = 1, !.triedLeftFromAnchor = 1],
                   s.curA, s.curF - 1, t),
                 bpm_now, cry_now)
     ELSE IF s.triedUpFromAnchor = 0 /\ s.curA > 0
     THEN Record(controller_command_cell(
                   [Mark(s, "up") EXCEPT
                      !.lastMoveDir = 2, !.triedUpFromAnchor = 1],
                   s.curA - 1, s.curF, t),
                 bpm_now, cry_now)
     ELSE IF s.curA + 1 = 1 /\ s.curF + 1 = 1
     THEN Record(Mark(s, "calm_holding"), bpm_now, cry_now)
     ELSE Record(Mark(s, "fatal_holding"), bpm_now, cry_now)

\* normal (non-panic) path
NormalStep(s, bpm_now, cry_now, t) ==
  LET crying == CryingRegime(bpm_now, cry_now)
      improved == IF crying THEN crying_improved(s, cry_now)
                  ELSE heartbeat_improved(s, bpm_now)
      s1 == [s EXCEPT !.is_crying_activated = IF crying THEN 1 ELSE 0]
      same == Same(s1, crying, bpm_now, cry_now)
      s2 == AnchorSync(s1)
  IN IF s2.lastMoveDir = 0
     THEN IdleStep(s2, improved, same, bpm_now, cry_now, t)
     ELSE PendingStep(s2, improved, same, bpm_now, cry_now, t)

controller_step(s0, bpm_now, cry_now, t) ==
  LET s1 == PanicDetect([s0 EXCEPT !.hit_wall = 0, !.sent = <<>>,
                                   !.trace = <<>>], bpm_now)
  IN IF s1.panic_mode = 1
     THEN PanicStep(s1, bpm_now, cry_now, t)
     ELSE NormalStep(s1, bpm_now, cry_now, t)

\* ------------------------------------------------------------------------
\* Framed transport
\* ------------------------------------------------------------------------
Min(a, b) == IF a < b THEN a ELSE b

Drop(q, n) == SubSeq(q, n + 1, Len(q))

\* the receive side as one record
Bus == [rx |-> rx, g_src |-> g_src, g_len |-> g_len,
        g_payload |-> g_payload, ret |-> ret]

\* send_message_raw: the bytes written to the UART, [DST][SRC][LEN][PAYLOAD]
send_message_raw_ShortLoop(dst, src, payload, len) ==
  <<dst, src, len>> \o [i \in 1..(IF len > 0 THEN len - 1 ELSE 0) |-> payload[i]]

send_message_raw(dst, src, payload, len) ==
  <<dst, src, len>> \o [i \in 1..len |-> payload[i]]

\* number of payload bytes drained from a frame that is not for the master
DrainLen_Clamped(len) == IF len > MAX_PAY THEN MAX_PAY ELSE len

DrainLen(len) == len

\* number of payload bytes stored from a frame for the master
StoreLen(len) == IF len > MAX_PAY THEN MAX_PAY ELSE len

\* g_payload after the bytes of body were stored from index 0 on
StorePayload(old, body) ==
  [i \in 1..MAX_PAY |-> IF i <= Len(body) THEN body[i] ELSE old[i]]

\* receive_message on the bytes b.rx; a read past the end of b.rx is a
\* receive_byte that times out (no byte arrives within TIMEOUT)
receive_message(b) ==
  IF b.rx = <<>> THEN [b EXCEPT !.ret = -1]
  ELSE IF Len(b.rx) < 3 THEN [b EXCEPT !.ret = -1, !.rx = <<>>]
  ELSE
    LET dst == b.rx[1]
        src == b.rx[2]
        len == b.rx[3]
        body == Drop(b.rx, 3)
    IN IF dst # MSTR
       THEN [b EXCEPT !.ret = 0,
                      !.rx = Drop(body, Min(DrainLen(len), Len(body)))]
       ELSE LET n == StoreLen(len)
            IN IF Len(body) < n
               THEN [b EXCEPT !.ret = -3, !.rx = <<>>,
                              !.g_payload = StorePayload(@, body)]
               ELSE [b EXCEPT !.ret = n, !.rx = Drop(body, n),
                              !.g_payload = StorePayload(@, SubSeq(body, 1, n)),
                              !.g_src = src, !.g_len = n]

\* drain_my_rx: receive while data is buffered, stop at a failed receive
RECURSIVE drain_my_rx(_)
drain_my_rx(b) ==
  IF b.rx = <<>> THEN b
  ELSE LET r == receive_message(b)
       IN IF r.ret < 0 THEN r ELSE drain_my_rx(r)

InitBus ==
  /\ rx = <<>>
  /\ g_src = 0 /\ g_len = 0
  /\ g_payload = [i \in 1..MAX_PAY |-> 0]
  /\ ret = -1

InitRx == frames = <<>> /\ nrecv = 0

InitReq ==
  /\ pc = "idle" /\ waited = 0 /\ reqNo = 0 /\ result = -1
  /\ reqDst = MSTR
  /\ hbInbox = <<>> /\ cryInbox = <<>>
  /\ noise = 0

SetBus(b) ==
  /\ rx' = b.rx
  /\ g_src' = b.g_src /\ g_len' = b.g_len
  /\ g_payload' = b.g_payload
  /\ ret' = b.ret

\* ------------------------------------------------------------------------
\* Transport specification: frames are written to the stream, the master
\* calls receive_message
\* ------------------------------------------------------------------------
FrameDst == {MSTR, HRTBT}
FrameSrc == {HRTBT, CRY}
FrameLen == 0..(MAX_PAY + 1)
\* payloads <<b, b+1, ...>>
PayloadBase == {ChH, 170}
PayloadOf(base, len) == [i \in 1..len |-> base + i - 1]

\* a node writes one frame, which arrives in the master's FIFO
RxSend(dst, src, payload, len) ==
  /\ Len(frames) < MaxFrames
  /\ rx' = rx \o send_message_raw(dst, src, payload, len)
  /\ frames' = Append(frames, [dst |-> dst, src |-> src, len |-> len,
                               payload |-> payload])
  /\ UNCHANGED <<g_src, g_len, g_payload, ret, nrecv, ctlVars, reqVars, pingVars, loopVars>>

RxSendAny ==
  \E dst \in FrameDst, src \in FrameSrc, len \in FrameLen,
     base \in PayloadBase :
    RxSend(dst, src, PayloadOf(base, len), len)

\* one call of receive_message
RxReceive ==
  /\ nrecv < 2 * MaxFrames
  /\ \E b \in {receive_message(Bus)} : SetBus(b)
  /\ nrecv' = IF rx # <<>> THEN nrecv + 1 ELSE nrecv
  /\ UNCHANGED <<frames, ctlVars, reqVars, pingVars, loopVars>>

NextRx == RxSendAny \/ RxReceive

\* ------------------------------------------------------------------------
\* Request specification: request_heartbeat against a heartbeat node that
\* answers each request at a time of its own choosing
\* ------------------------------------------------------------------------
\* request_heartbeat entry: drain stale frames, send {'H'} to HRTBT
ReqStart ==
  /\ pc = "idle"
  /\ reqNo < MaxReq
  /\ \E b \in {drain_my_rx(Bus)} : SetBus(b)
  /\ reqNo' = reqNo + 1
  /\ hbInbox' = Append(hbInbox, reqNo + 1)
  /\ waited' = 0
  /\ pc' = "wait"
  /\ reqDst' = HRTBT
  /\ UNCHANGED <<result, cryInbox, noise, ctlVars, rxVars, pingVars, loopVars>>

\* the reply test of the wait loop of request_heartbeat
IsHeartbeatReply_AnySource(b) ==
  b.ret > 0 /\ b.g_len >= 2 /\ b.g_payload[1] = ChH

IsHeartbeatReply(b) ==
  b.ret > 0 /\ b.g_src = HRTBT /\ b.g_len >= 2 /\ b.g_payload[1] = ChH

\* one iteration of the wait loop
ReqPoll ==
  /\ pc = "wait"
  /\ waited < MaxWait
  /\ \E b \in {receive_message(Bus)} :
       /\ SetBus(b)
       /\ IF IsHeartbeatReply(b)
          THEN result' = b.g_payload[2] /\ pc' = "idle" /\ waited' = waited
          ELSE result' = result /\ pc' = pc /\ waited' = waited + 1
  /\ UNCHANGED <<reqNo, reqDst, hbInbox, cryInbox, noise, ctlVars, rxVars, pingVars, loopVars>>

\* the wait window is over: return -1
ReqTimeout ==
  /\ pc = "wait"
  /\ waited >= MaxWait
  /\ result' = -1
  /\ pc' = "idle"
  /\ UNCHANGED <<waited, reqNo, reqDst, hbInbox, cryInbox, noise, busVars,
                 ctlVars, rxVars, pingVars, loopVars>>

\* request_crying entry: send {'C'} to CRY (no drain)
CryStart ==
  /\ pc = "idle"
  /\ reqNo < MaxReq
  /\ reqNo' = reqNo + 1
  /\ cryInbox' = Append(cryInbox, reqNo + 1)
  /\ waited' = 0
  /\ pc' = "cwait"
  /\ reqDst' = CRY
  /\ UNCHANGED <<result, hbInbox, noise, busVars, ctlVars, rxVars, pingVars, loopVars>>

\* the reply test of the wait loop of request_crying
IsCryingReply(b) ==
  b.ret > 0 /\ b.g_src = CRY /\ b.g_len >= 2 /\ b.g_payload[1] = ChC

CryPoll ==
  /\ pc = "cwait"
  /\ waited < MaxWaitCry
  /\ \E b \in {receive_message(Bus)} :
       /\ SetBus(b)
       /\ IF IsCryingReply(b)
          THEN result' = b.g_payload[2] /\ pc' = "idle" /\ waited' = waited
          ELSE result' = result /\ pc' = pc /\ waited' = waited + 1
  /\ UNCHANGED <<reqNo, reqDst, hbInbox, cryInbox, noise, ctlVars, rxVars, pingVars, loopVars>>

CryTimeout ==
  /\ pc = "cwait"
  /\ waited >= MaxWaitCry
  /\ result' = -1
  /\ pc' = "idle"
  /\ UNCHANGED <<waited, reqNo, reqDst, hbInbox, cryInbox, noise, busVars,
                 ctlVars, rxVars, pingVars, loopVars>>

\* the heartbeat node answers its oldest unanswered request n with the
\* frame {'H', n}; the frame arrives in the master's FIFO
HbReply ==
  /\ hbInbox # <<>>
  /\ rx' = rx \o send_message_raw(MSTR, HRTBT, <<ChH, Head(hbInbox)>>, 2)
  /\ hbInbox' = Tail(hbInbox)
  /\ UNCHANGED <<g_src, g_len, g_payload, ret, pc, waited, reqNo, result,
                 reqDst, cryInbox, noise, ctlVars, rxVars, pingVars, loopVars>>

\* the crying node answers its oldest unanswered request n with {'C', n}
CryReply ==
  /\ cryInbox # <<>>
  /\ rx' = rx \o send_message_raw(MSTR, CRY, <<ChC, Head(cryInbox)>>, 2)
  /\ cryInbox' = Tail(cryInbox)
  /\ UNCHANGED <<g_src, g_len, g_payload, ret, pc, waited, reqNo, result,
                 reqDst, hbInbox, noise, ctlVars, rxVars, pingVars, loopVars>>

\* other frames on the bus: a late boot-ping acknowledgement, a reply cut
\* to one byte, a frame for the motor node, an 'H' frame from the crying
\* node, a 'C' frame from the heartbeat node
NoiseFrames ==
  { send_message_raw(MSTR, HRTBT, <<ChA>>, 1),
    send_message_raw(MSTR, HRTBT, <<ChH>>, 1),
    send_message_raw(MTR, MSTR, <<ChM, 1, 1>>, 3),
    send_message_raw(MSTR, CRY, <<ChH, 9>>, 2),
    send_message_raw(MSTR, HRTBT, <<ChC, 9>>, 2) }

BusNoise ==
  /\ noise < MaxNoise
  /\ noise' = noise + 1
  /\ \E fr \in NoiseFrames : rx' = rx \o fr
  /\ UNCHANGED <<g_src, g_len, g_payload, ret, pc, waited, reqNo, result,
                 reqDst, hbInbox, cryInbox, ctlVars, rxVars, pingVars, loopVars>>

\* ------------------------------------------------------------------------
\* Call specification: request_heartbeat with the loop of drain_my_rx taken
\* one iteration at a time, while other frames keep arriving
\* ------------------------------------------------------------------------
\* request_heartbeat is called: drain_my_rx is entered
CallStart ==
  /\ pc = "idle"
  /\ reqNo < MaxReq
  /\ reqNo' = reqNo + 1
  /\ pc' = "drain"
  /\ reqDst' = HRTBT
  /\ UNCHANGED <<waited, result, hbInbox, cryInbox, noise, busVars, ctlVars,
                 rxVars, pingVars, loopVars>>

\* one iteration of the loop of drain_my_rx: data is buffered, one
\* receive_message; a failed receive leaves the loop and the request is sent
DrainIter ==
  /\ pc = "drain"
  /\ rx # <<>>
  /\ \E b \in {receive_message(Bus)} :
       /\ SetBus(b)
       /\ IF b.ret < 0
          THEN /\ hbInbox' = Append(hbInbox, reqNo)
               /\ waited' = 0
               /\ pc' = "wait"
          ELSE UNCHANGED <<hbInbox, waited, pc>>
  /\ UNCHANGED <<reqNo, result, reqDst, cryInbox, noise, ctlVars, rxVars,
                 pingVars, loopVars>>

\* the loop of drain_my_rx finds no data: send {'H'} to HRTBT and enter the
\* wait loop
DrainExit ==
  /\ pc = "drain"
  /\ rx = <<>>
  /\ hbInbox' = Append(hbInbox, reqNo)
  /\ waited' = 0
  /\ pc' = "wait"
  /\ UNCHANGED <<reqNo, result, reqDst, cryInbox, noise, busVars, ctlVars,
                 rxVars, pingVars, loopVars>>

\* another frame arrives in the master's empty FIFO, at any time
BusTraffic ==
  /\ rx = <<>>
  /\ \E fr \in NoiseFrames : rx' = fr
  /\ UNCHANGED <<g_src, g_len, g_payload, ret, reqVars, ctlVars, rxVars,
                 pingVars, loopVars>>

\* the steps of the master
CallStep == CallStart \/ DrainIter \/ DrainExit \/ ReqPoll \/ ReqTimeout

NextCall == CallStep \/ HbReply \/ BusTraffic

\* ------------------------------------------------------------------------
\* Liveness probe: the three boot_ping calls of main, against nodes that
\* acknowledge a probe late or never
\* ------------------------------------------------------------------------
PingOrder == <<HRTBT, CRY, MTR>>

InitPing ==
  /\ pingPc = "idle" /\ pingNo = 0 /\ pingDst = MSTR
  /\ pingWaited = 0 /\ since_send = 0 /\ pingResult = -1
  /\ probes = 0
  /\ ackInbox = <<>>

\* boot_ping(dst) entry
PingStart ==
  /\ pingPc \in {"idle", "done"}
  /\ pingNo < Len(PingOrder)
  /\ pingNo' = pingNo + 1
  /\ pingDst' = PingOrder[pingNo + 1]
  /\ pingWaited' = 0
  /\ since_send' = MaxPingRetry
  /\ probes' = 0
  /\ pingPc' = "run"
  /\ UNCHANGED <<pingResult, ackInbox, busVars, ctlVars, rxVars, reqVars, loopVars>>

\* the acknowledgement test of boot_ping
IsPingAck_AnySource(b, dst) ==
  b.ret > 0 /\ b.g_len >= 1 /\ b.g_payload[1] = ChA

IsPingAck(b, dst) ==
  b.ret > 0 /\ b.g_src = dst /\ b.g_len >= 1 /\ b.g_payload[1] = ChA

\* the resend test of boot_ping
ProbeDue_Always(since) == TRUE

ProbeDue(since) == since >= MaxPingRetry

\* one iteration of the loop of boot_ping
PingIter ==
  /\ pingPc = "run"
  /\ pingWaited < MaxPingTotal
  /\ LET due == ProbeDue(since_send)
         since == IF due THEN 0 ELSE since_send
     IN /\ probes' = IF due THEN probes + 1 ELSE probes
        /\ ackInbox' = IF due THEN Append(ackInbox, pingDst) ELSE ackInbox
        /\ \E b \in {receive_message(Bus)} :
             /\ SetBus(b)
             /\ IF IsPingAck(b, pingDst)
                THEN /\ pingResult' = 1 /\ pingPc' = "done"
                     /\ pingWaited' = pingWaited /\ since_send' = since
                ELSE /\ pingResult' = pingResult /\ pingPc' = pingPc
                     /\ pingWaited' = pingWaited + 1
                     /\ since_send' = since + 1
  /\ UNCHANGED <<pingNo, pingDst, ctlVars, rxVars, reqVars, loopVars>>

\* the total budget is over: return 0
PingTimeout ==
  /\ pingPc = "run"
  /\ pingWaited >= MaxPingTotal
  /\ pingResult' = 0
  /\ pingPc' = "done"
  /\ UNCHANGED <<pingNo, pingDst, pingWaited, since_send, probes, ackInbox,
                 busVars, ctlVars, rxVars, reqVars, loopVars>>

\* a probed node acknowledges its oldest unanswered probe with {'A'}
PingAck ==
  /\ ackInbox # <<>>
  /\ rx' = rx \o send_message_raw(MSTR, Head(ackInbox), <<ChA>>, 1)
  /\ ackInbox' = Tail(ackInbox)
  /\ UNCHANGED <<g_src, g_len, g_payload, ret, pingPc, pingNo, pingDst,
                 pingWaited, since_send, pingResult, probes,
                 ctlVars, rxVars, reqVars, loopVars>>

\* a probed node does not answer a probe
PingLost ==
  /\ ackInbox # <<>>
  /\ ackInbox' = Tail(ackInbox)
  /\ UNCHANGED <<busVars, pingPc, pingNo, pingDst, pingWaited, since_send,
                 pingResult, probes, ctlVars, rxVars, reqVars, loopVars>>

NextPing ==
  PingStart \/ PingIter \/ PingTimeout \/ PingAck \/ PingLost \/ BusNoise

NextReq ==
  \/ ReqStart \/ ReqPoll \/ ReqTimeout
  \/ CryStart \/ CryPoll \/ CryTimeout
  \/ HbReply \/ CryReply \/ BusNoise

\* ------------------------------------------------------------------------
\* Controller specification
\* ------------------------------------------------------------------------
InitCtl ==
  /\ curA = 4 /\ curF = 4
  /\ is_crying_activated = 0
  /\ ctrl_lastBPM = -1 /\ ctrl_lastCRY = -1
  /\ prevA = 4 /\ prevF = 4
  /\ anchorA_mem = -1 /\ anchorF_mem = -1
  /\ triedLeftFromAnchor = 0 /\ triedUpFromAnchor = 0
  /\ lastMoveDir = 0 /\ hit_wall = 0
  /\ anchorMatrix = [c \in Cells |-> 0]
  /\ anchorLevel = 0
  /\ panic_mode = 0
  /\ now = 1
  /\ g_algo_start_ms = 1
  /\ g_calm_reached = 0 /\ g_calm_elapsed_ms = 0
  /\ g_amp = 0 /\ g_freq = 0
  /\ sent = <<>>
  /\ trace = <<>>
  /\ bpm_in = -1 /\ cry_in = -1

\* clock values a call of now_msec() can return after the value now
Later == {now, IF now < MaxNow THEN now + 1 ELSE now}

\* the statics after a call controller_step(bpm_now, cry_now) that left s
SetCtl(s, bpm_now, cry_now) ==
     /\ curA' = s.curA /\ curF' = s.curF
     /\ is_crying_activated' = s.is_crying_activated
     /\ ctrl_lastBPM' = s.ctrl_lastBPM /\ ctrl_lastCRY' = s.ctrl_lastCRY
     /\ prevA' = s.prevA /\ prevF' = s.prevF
     /\ anchorA_mem' = s.anchorA_mem /\ anchorF_mem' = s.anchorF_mem
     /\ triedLeftFromAnchor' = s.triedLeftFromAnchor
     /\ triedUpFromAnchor' = s.triedUpFromAnchor
     /\ lastMoveDir' = s.lastMoveDir /\ hit_wall' = s.hit_wall
     /\ anchorMatrix' = s.anchorMatrix /\ anchorLevel' = s.anchorLevel
     /\ panic_mode' = s.panic_mode
     /\ g_algo_start_ms' = s.g_algo_start_ms
     /\ g_calm_reached' = s.g_calm_reached
     /\ g_calm_elapsed_ms' = s.g_calm_elapsed_ms
     /\ g_amp' = s.g_amp /\ g_freq' = s.g_freq
     /\ sent' = s.sent
     /\ trace' = s.trace
     /\ bpm_in' = bpm_now /\ cry_in' = cry_now

\* one iteration of the control loop that calls controller_step
Step(bpm_now, cry_now) ==
  \E t \in Later :
  \E s \in {controller_step(St, bpm_now, cry_now, t)} :
     /\ now' = t
     /\ SetCtl(s, bpm_now, cry_now)
     /\ UNCHANGED <<busVars, rxVars, reqVars, pingVars, loopVars>>

ControllerStep == \E b \in BpmVals, c \in CryVals : Step(b, c)

\* one of a bounded number of iterations of the control loop that call
\* controller_step with vitals at the limits of the regime test
EdgeStep ==
  /\ iter < MaxEdgeSteps
  /\ iter' = iter + 1
  /\ \E b \in BpmEdge, c \in CryEdge :
     \E t \in Later :
     \E s \in {controller_step(St, b, c, t)} :
        /\ now' = t
        /\ SetCtl(s, b, c)
  /\ UNCHANGED <<lpc, hb_ok, cry_ok, mtr_ok, last_bpm, last_cry,
                 last_step_ms, warm_i, stepTime, hbReqs, cryReqs, mtrCmds,
                 stepped, polls, goodBpm, goodCry,
                 busVars, rxVars, reqVars, pingVars>>

\* heart rates below the last one by a fall that heartbeat_improved accepts
Falling ==
  IF ctrl_lastBPM <= 0 THEN BpmStart
  ELSE {b \in 1..ctrl_lastBPM : ctrl_lastBPM - b \in thresholdBPM..MaxDrop}

\* the call entered panic mode, or judged a pending move not improved
NotImproved(s) ==
  \E i \in 1..Len(s.trace) :
     s.trace[i] \in {"panic", "reverse_diagonal", "backtrack"}

\* an iteration of the control loop that calls controller_step with vitals
\* under which no panic starts and a pending move is judged improved
ImprovingStep ==
  \E b \in Falling, c \in CryVals :
  \E t \in Later :
  \E s \in {controller_step(St, b, c, t)} :
     /\ ~NotImproved(s)
     /\ now' = t
     /\ SetCtl(s, b, c)
     /\ UNCHANGED <<busVars, rxVars, reqVars, pingVars, loopVars>>

\* ------------------------------------------------------------------------
\* Decision mode of main: boot probes, controller initialisation, warm-up
\* loop and control loop.  The clock counts ticks of 4 ms, so that the
\* range of uint32_t milliseconds, 2^32, is the 2^30 ticks of U32, and it
\* advances by the sleeps of the loops.
\* ------------------------------------------------------------------------
Ticks(ms) == ms \div 4

U32 == 2^30

\* clock readings at which the decision mode can start: one second and
\* twenty seconds after boot, and four seconds before the millisecond
\* count leaves the range of uint32_t
StartTimes == {Ticks(1000), Ticks(20000), U32 - Ticks(4000)}

\* (uint32_t)now_msec(): the conversion of a double that is out of the
\* range of uint32_t is undefined; builds reduce it modulo 2^32 or saturate
CastU32(t) == IF t < U32 THEN {t} ELSE {t % U32, U32 - 1}

\* (uint32_t)(a - b)
SubU32(a, b) == (a - b + U32) % U32

\* what a request to a sensor node returns: -1, or the value the node
\* replied, a node that did not answer its boot probe staying silent
Outcomes(ok, vals) == {-1} \cup (IF ok = 1 THEN vals ELSE {})

InitLoop ==
  /\ lpc = "boot"
  /\ hb_ok = 0 /\ cry_ok = 0 /\ mtr_ok = 0
  /\ last_bpm = 0 /\ last_cry = 0
  /\ last_step_ms = 0 /\ warm_i = 0
  /\ iter = 0 /\ stepTime = 0
  /\ hbReqs = 0 /\ cryReqs = 0 /\ mtrCmds = 0
  /\ stepped = 0 /\ polls = 0
  /\ goodBpm = 0 /\ goodCry = 0

\* the three boot probes return and the controller is initialised
DecisionInit ==
  /\ lpc = "boot"
  /\ lpc' = "warm"
  /\ \E h \in {0, 1}, c \in {0, 1}, m \in {0, 1} :
       hb_ok' = h /\ cry_ok' = c /\ mtr_ok' = m
  /\ \E t \in StartTimes : now' = t /\ g_algo_start_ms' = t
  /\ curA' = 4 /\ curF' = 4 /\ prevA' = 4 /\ prevF' = 4
  /\ lastMoveDir' = 0
  /\ g_calm_reached' = 0 /\ g_calm_elapsed_ms' = 0
  /\ last_step_ms' = 0
  /\ UNCHANGED <<is_crying_activated, ctrl_lastBPM, ctrl_lastCRY,
                 anchorA_mem, anchorF_mem, triedLeftFromAnchor,
                 triedUpFromAnchor, hit_wall, anchorMatrix, anchorLevel,
                 panic_mode, g_amp, g_freq, sent, trace, bpm_in, cry_in,
                 last_bpm, last_cry, warm_i, iter, stepTime, hbReqs, cryReqs,
                 mtrCmds, stepped, polls, goodBpm, goodCry,
                 busVars, rxVars, reqVars, pingVars>>

\* one iteration of the warm-up loop
WarmIter ==
  /\ lpc = "warm"
  /\ \E vhb \in Outcomes(hb_ok, BpmVals), vcr \in Outcomes(cry_ok, CryVals) :
       LET bpm == IF vhb >= 0 THEN vhb ELSE last_bpm
           cry == IF vcr >= 0 THEN vcr ELSE last_cry
           out == bpm # 0 \/ cry # 0
       IN /\ hbReqs' = 1
          /\ cryReqs' = 1
          /\ last_bpm' = bpm /\ last_cry' = cry
          /\ goodBpm' = IF vhb >= 0 THEN vhb ELSE goodBpm
          /\ goodCry' = IF vcr >= 0 THEN vcr ELSE goodCry
          /\ warm_i' = IF out THEN warm_i ELSE warm_i + 1
          /\ lpc' = IF out \/ warm_i + 1 >= MaxWarm THEN "loop" ELSE "warm"
          /\ now' = now + (IF out THEN 0 ELSE Ticks(20))
  /\ UNCHANGED <<curA, curF, is_crying_activated, ctrl_lastBPM, ctrl_lastCRY,
                 prevA, prevF, anchorA_mem, anchorF_mem, triedLeftFromAnchor,
                 triedUpFromAnchor, lastMoveDir, hit_wall, anchorMatrix,
                 anchorLevel, panic_mode, g_algo_start_ms, g_calm_reached,
                 g_calm_elapsed_ms, g_amp, g_freq, sent, trace, bpm_in, cry_in,
                 hb_ok, cry_ok, mtr_ok, last_step_ms, iter, stepTime, mtrCmds,
                 stepped, polls, busVars, rxVars, reqVars, pingVars>>

\* step_period_ms and delay_ms of the control loop
Interval(hw, crying) ==
  IF hw # 0 THEN Ticks(CONVERGENCE_DELAY)
  ELSE IF crying # 0 THEN Ticks(CRYING_DELAY)
  ELSE Ticks(HEARTBEAT_DELAY)

\* the test that lets an iteration of the control loop run a step
StepDue(n32, last, period) == SubU32(n32, last) >= period

\* the crying value an iteration of the control loop keeps
LoopCry(cry) == 0

\* one iteration of the control loop
LoopIter ==
  /\ lpc = "loop"
  /\ iter < MaxIter
  /\ iter' = iter + 1
  /\ \E n32 \in CastU32(now), vhb \in Outcomes(hb_ok, BpmVals) :
       LET bpm == IF vhb >= 0 THEN vhb ELSE last_bpm
           cry == LoopCry(last_cry)
           due == StepDue(n32, last_step_ms,
                          Interval(hit_wall, is_crying_activated))
           call == due /\ mtr_ok = 1
       IN /\ hbReqs' = 1
          /\ last_bpm' = bpm /\ last_cry' = cry
          /\ goodBpm' = IF vhb >= 0 THEN vhb ELSE goodBpm
          /\ last_step_ms' = IF due THEN n32 ELSE last_step_ms
          /\ stepTime' = IF due THEN now ELSE stepTime
          /\ stepped' = IF call THEN 1 ELSE 0
          /\ polls' = IF call THEN 0 ELSE Min(polls + 1, 2)
          /\ \E s \in {IF call THEN controller_step(St, bpm, cry, now)
                               ELSE St} :
               /\ IF call
                  THEN SetCtl(s, bpm, cry)
                  ELSE UNCHANGED <<curA, curF, is_crying_activated,
                         ctrl_lastBPM, ctrl_lastCRY, prevA, prevF,
                         anchorA_mem, anchorF_mem, triedLeftFromAnchor,
                         triedUpFromAnchor, lastMoveDir, hit_wall,
                         anchorMatrix, anchorLevel, panic_mode,
                         g_algo_start_ms, g_calm_reached, g_calm_elapsed_ms,
                         g_amp, g_freq, sent, trace, bpm_in, cry_in>>
               /\ mtrCmds' = IF call /\ s.sent # <<>> THEN 1 ELSE mtrCmds
               /\ now' = now
                            + Interval(s.hit_wall, s.is_crying_activated)
  /\ UNCHANGED <<lpc, hb_ok, cry_ok, mtr_ok, warm_i, cryReqs, goodCry,
                 busVars, rxVars, reqVars, pingVars>>

NextLoop == DecisionInit \/ WarmIter \/ LoopIter

Init == InitCtl /\ InitBus /\ InitRx /\ InitReq /\ InitPing /\ InitLoop

Next == ControllerStep

Spec == Init /\ [][Next]_vars

SpecRx == Init /\ [][NextRx]_vars

SpecReq == Init /\ [][NextReq]_vars

SpecPing == Init /\ [][NextPing]_vars

SpecLoop == Init /\ [][NextLoop]_vars

NextEdge == EdgeStep

SpecEdge == Init /\ [][NextEdge]_vars

\* the master always takes its next step; the nodes and the bus owe nothing
SpecCall == Init /\ [][NextCall]_vars /\ WF_vars(CallStep)

NextCalm == ImprovingStep

\* the control loop never stops calling controller_step
SpecCalm == Init /\ [][NextCalm]_vars /\ WF_vars(ImprovingStep)

\* ------------------------------------------------------------------------
\* Properties of the controller (checked under Spec)
\* ------------------------------------------------------------------------
InTrace(b) == \E i \in 1..Len(trace) : trace[i] = b

\* C1: every motor command of a step has both indices in 0..4, and the
\* current cell stays inside the 5x5 grid.
C1_CommandsInGrid ==
  /\ curA \in Grid /\ curF \in Grid
  /\ \A i \in 1..Len(sent) : sent[i][1] \in Grid /\ sent[i][2] \in Grid

\* an Idle step at (0,0) asked for the cell (-1,0) left of the wall
C1_Witness ==
  /\ trace = <<"wall_left", "backtrack">>
  /\ prevA = 0 /\ prevF = 0
  /\ sent = << <<0, 0>> >>

\* C2: once panic_mode is set it stays set, and every step that ends with
\* panic_mode set (the entering step included) commands exactly (0,0).
C2_StickyPanic ==
  [][ /\ (panic_mode = 1 => panic_mode' = 1)
      /\ (panic_mode' = 1 => sent' = << <<0, 0>> >>) ]_vars

\* a later step in panic: bpm 0 cannot be the jump that entered panic
C2_Witness ==
  panic_mode = 1 /\ ctrl_lastBPM = 0 /\ sent = << <<0, 0>> >>

\* C3: once calm is latched, no step clears it or changes the elapsed time.
C3_CalmLatchMonotonic ==
  [][ g_calm_reached = 1 =>
        (g_calm_reached' = 1 /\ g_calm_elapsed_ms' = g_calm_elapsed_ms) ]_vars

\* (0,0) is commanded again, outside panic, at a later clock value than the
\* one at which calm was latched
C3_Witness ==
  /\ g_calm_reached = 1 /\ panic_mode = 0
  /\ now - g_algo_start_ms > g_calm_elapsed_ms
  /\ Len(sent) >= 1 /\ sent[Len(sent)] = <<0, 0>>

\* C4: one controller_step issues at most one motor command.
C4_AtMostOneCommand == Len(sent) <= 1

\* C5 (as stated): in a normal step panic is entered iff a previous bpm p has
\* been recorded (any p, 0 included) and bpm_now - p >= 30.
\* ctrl_lastBPM' is bpm_now: every path of the step records it.
C5_PanicTrigger_AnyRecorded ==
  [][ panic_mode = 0 =>
        (panic_mode' = 1 <=>
           (ctrl_lastBPM >= 0 /\ ctrl_lastBPM' - ctrl_lastBPM >= 30)) ]_vars

\* C5 (amended): in a normal step panic is entered iff the previously
\* recorded bpm p is positive and bpm_now - p >= 30.
C5_PanicTrigger ==
  [][ panic_mode = 0 =>
        (panic_mode' = 1 <=>
           (ctrl_lastBPM > 0 /\ ctrl_lastBPM' - ctrl_lastBPM >= 30)) ]_vars

\* the step that entered panic on a jump of exactly 30
C5_Witness ==
  panic_mode = 1 /\ ctrl_lastBPM = 170 /\ g_amp = 0 /\ g_freq = 0

\* C6: no step takes the Idle branch "both directions tried, not at the
\* goal cell".
C6_FatalBranchUnreachable == ~InTrace("fatal_holding")

\* C7: a registered cell keeps its rank; a newly registered cell gets a rank
\* below every rank handed out before; cells registered in the same step get
\* different ranks; the discovery counter advances once per new cell.
NewAnchors ==
  {c \in Cells : anchorMatrix[c] = 0 /\ anchorMatrix'[c] # 0}

C7_AnchorRanks ==
  [][ /\ \A c \in Cells :
           anchorMatrix[c] # 0 => anchorMatrix'[c] = anchorMatrix[c]
      /\ \A c \in NewAnchors : \A d \in Cells :
           anchorMatrix[d] # 0 => anchorMatrix'[c] < anchorMatrix[d]
      /\ \A c \in NewAnchors : \A d \in NewAnchors :
           c # d => anchorMatrix'[c] # anchorMatrix'[d]
      /\ \A c \in Cells : anchorMatrix'[c] = 0 => anchorMatrix[c] = 0
      /\ anchorLevel' = anchorLevel + Cardinality(NewAnchors) ]_vars

\* register_anchor is called again for the registered goal cell
C7_Witness ==
  /\ anchorMatrix[<<0, 0>>] # 0
  /\ trace = <<"improved">>
  /\ sent = <<>>
  /\ anchorLevel >= 3

\* the step recorded the vitals it was called with
Recorded == ctrl_lastBPM' = bpm_in' /\ ctrl_lastCRY' = cry_in'

\* C13: a normal step that starts Idle at (a, f), a > 0, f > 0, with Left
\* untried (the flag clear, or the cell a new anchor) commands exactly
\* (a, f-1), becomes MovedLeft with Left tried, backtrack target (a, f),
\* and records the vitals.
C13_IdleToLeft ==
  [][ (/\ panic_mode' = 0
       /\ lastMoveDir = 0
       /\ curA > 0 /\ curF > 0
       /\ \/ triedLeftFromAnchor = 0
          \/ anchorA_mem # curA \/ anchorF_mem # curF)
      => /\ sent' = << <<curA, curF - 1>> >>
         /\ curA' = curA /\ curF' = curF - 1
         /\ lastMoveDir' = 1
         /\ triedLeftFromAnchor' = 1
         /\ prevA' = curA /\ prevF' = curF
         /\ Recorded ]_vars

\* the spec's scenario: Left from (2,2), reached as a new anchor
C13_Witness ==
  /\ trace = <<"left">>
  /\ prevA = 2 /\ prevF = 2
  /\ sent = << <<2, 1>> >>
  /\ lastMoveDir = 1 /\ triedLeftFromAnchor = 1

\* the improvement test, on the vitals of the call and the recorded ones
ImprovedNow ==
  IF bpm_in' < 150 /\ cry_in' > 15 /\ cry_in' < 52
  THEN \/ cry_in' <= 1
       \/ ctrl_lastCRY > 0 /\ ctrl_lastCRY - cry_in' >= 1
  ELSE ctrl_lastBPM > 0 /\ ctrl_lastBPM - bpm_in' >= 10

\* C14: a normal step with a pending move that is judged improved makes the
\* current cell (a, f) the remembered anchor and the backtrack target;
\* f > 0: commands (a, f-1), MovedLeft, Left tried; f = 0 < a: commands
\* (a-1, f), MovedUp, Up not marked tried; the vitals are recorded.
C14_ImprovementPath ==
  [][ (/\ panic_mode' = 0
       /\ lastMoveDir \in {1, 2}
       /\ ImprovedNow)
      => /\ anchorA_mem' = curA /\ anchorF_mem' = curF
         /\ prevA' = curA /\ prevF' = curF
         /\ curF > 0 =>
              /\ sent' = << <<curA, curF - 1>> >>
              /\ lastMoveDir' = 1 /\ triedLeftFromAnchor' = 1
         /\ (curF = 0 /\ curA > 0) =>
              /\ sent' = << <<curA - 1, curF>> >>
              /\ lastMoveDir' = 2 /\ triedUpFromAnchor' = 0
         /\ Recorded ]_vars

\* the spec's scenario continued to the wall: improved at (2,0), Up to (1,0)
C14_Witness ==
  /\ trace = <<"improved">>
  /\ anchorA_mem = 2 /\ anchorF_mem = 0
  /\ sent = << <<1, 0>> >>
  /\ lastMoveDir = 2 /\ triedUpFromAnchor = 0

\* the reverse-diagonal case of the step about to run
ReverseDiagonalApplies ==
  /\ lastMoveDir = 1
  /\ prevA > 0
  /\ Same(St, CryingRegime(bpm_in', cry_in'), bpm_in', cry_in') = 1

\* C15: a normal step with a pending move that is not improved and is not a
\* reverse-diagonal case ends Idle at the backtrack target, commands that
\* cell exactly when the current cell differed from it, and records the
\* vitals.
C15_Backtrack ==
  [][ (/\ panic_mode' = 0
       /\ lastMoveDir \in {1, 2}
       /\ ~ImprovedNow
       /\ ~ReverseDiagonalApplies)
      => /\ curA' = prevA /\ curF' = prevF
         /\ lastMoveDir' = 0
         /\ sent' = IF curA # prevA \/ curF # prevF
                    THEN << <<prevA, prevF>> >> ELSE <<>>
         /\ UNCHANGED <<prevA, prevF>>
         /\ Recorded ]_vars

\* the spec's scenario: back to (3,3) after a move that did not help
C15_Witness ==
  /\ trace = <<"backtrack">>
  /\ curA = 3 /\ curF = 3
  /\ sent = << <<3, 3>> >>
  /\ lastMoveDir = 0

\* C16: a step that sets the hit-boundary flag issues no motor command.
C16_BoundaryHitOnlyFlag == hit_wall = 1 => sent = <<>>

\* the stability test in the words of the specification, on the vitals of
\* the call and the recorded ones
StableAsStated ==
  IF CryingRegime(bpm_in', cry_in')
  THEN cry_in' = ctrl_lastCRY
  ELSE abs(bpm_in' - ctrl_lastBPM) <= 3

\* what the reverse-diagonal probe does
ProbeEffect ==
  /\ sent' = << <<prevA - 1, prevF>> >>
  /\ curA' = prevA - 1 /\ curF' = prevF
  /\ lastMoveDir' = 2
  /\ triedUpFromAnchor' = 1
  /\ prevA' = curA /\ prevF' = curF

\* C21 (as stated): a normal step with pending MovedLeft that is not
\* improved but stable, whose backtrack target (pa, pf) has pa > 0, commands
\* (pa-1, pf), becomes MovedUp with Up tried and takes the cell it occupied
\* as backtrack target; a pending MovedUp never takes the probe.
C21_ReverseDiagonal_AnyPrior ==
  [][ /\ (/\ panic_mode' = 0
          /\ lastMoveDir = 1
          /\ ~ImprovedNow
          /\ StableAsStated
          /\ prevA > 0)
         => ProbeEffect
      /\ InTrace("reverse_diagonal")' => lastMoveDir = 1 ]_vars

\* C21 (amended): the same, for a step whose previously recorded bpm is
\* positive.
C21_ReverseDiagonal ==
  [][ /\ (/\ panic_mode' = 0
          /\ lastMoveDir = 1
          /\ ~ImprovedNow
          /\ ctrl_lastBPM > 0
          /\ StableAsStated
          /\ prevA > 0)
         => ProbeEffect
      /\ InTrace("reverse_diagonal")' => lastMoveDir = 1 ]_vars

\* C22: a step that starts Idle at the goal cell (0,0) ends Idle at (0,0)
\* and records its vitals, whatever the vitals are; so the goal cell, once
\* held Idle, is never left.
C22_GoalAbsorbing ==
  [][ (lastMoveDir = 0 /\ curA = 0 /\ curF = 0)
      => /\ curA' = 0 /\ curF' = 0
         /\ lastMoveDir' = 0
         /\ Recorded ]_vars

\* a normal step that started Idle at (0,0) asked for the cell beyond the
\* wall, was judged improved, and stayed Idle at (0,0)
C22_Witness ==
  /\ trace = <<"wall_left", "improved">>
  /\ panic_mode = 0
  /\ curA = 0 /\ curF = 0 /\ lastMoveDir = 0
  /\ prevA = 0 /\ prevF = 0

\* C23: a step that ends with panic_mode set (the entering step included)
\* forces the cell (0,0), records the vitals and clears the hit-boundary
\* flag, and leaves the move direction, the tried flags, the remembered
\* anchor, the backtrack target, the anchor registry, the regime flag and
\* the calm latch as they were.
C23_PanicNoSearch ==
  [][ panic_mode' = 1
      => /\ curA' = 0 /\ curF' = 0
         /\ Recorded
         /\ hit_wall' = 0
         /\ UNCHANGED <<lastMoveDir, triedLeftFromAnchor, triedUpFromAnchor,
                        anchorA_mem, anchorF_mem, prevA, prevF,
                        anchorMatrix, anchorLevel, is_crying_activated,
                        g_algo_start_ms, g_calm_reached,
                        g_calm_elapsed_ms>> ]_vars

\* panic with a move pending and the regime flag still Crying although the
\* recorded heart rate is in the heartbeat band
C23_Witness ==
  /\ panic_mode = 1 /\ trace = <<"panic">>
  /\ lastMoveDir = 1
  /\ is_crying_activated = 1 /\ ctrl_lastBPM >= 150
  /\ curA = 0 /\ curF = 0

\* C24: a step that ends with panic_mode set does not latch calm, and
\* panic_mode stays set; so calm that was not latched when panic was entered
\* is never latched afterwards.
C24_NoCalmInPanic ==
  [][ /\ (panic_mode' = 1 /\ g_calm_reached = 0)
         => (g_calm_reached' = 0 /\ g_calm_elapsed_ms' = g_calm_elapsed_ms)
      /\ panic_mode = 1 => panic_mode' = 1 ]_vars

\* (0,0) commanded by a panic step that started in panic, with the
\* controller clock running and calm not latched
C24_Witness ==
  /\ panic_mode = 1 /\ ctrl_lastBPM = 0
  /\ g_calm_reached = 0 /\ g_algo_start_ms > 0
  /\ sent = << <<0, 0>> >> /\ g_amp = 0 /\ g_freq = 0

\* C25: after every normal step the regime flag is 1 exactly when
\* bpm_now < 150 and 15 < cry_now < 52, and 0 otherwise, whatever the
\* earlier vitals and the earlier flag were.
C25_RegimeSelection ==
  [][ panic_mode' = 0 =>
        is_crying_activated' =
          (IF bpm_in' < 150 /\ 15 < cry_in' /\ cry_in' < 52
           THEN 1 ELSE 0) ]_vars

\* a third step with bpm below 150 and cry at the upper limit: Heartbeat
C25_Witness ==
  /\ iter = 3 /\ panic_mode = 0
  /\ bpm_in = 149 /\ cry_in = 52
  /\ is_crying_activated = 0

\* C26: a normal step that starts Idle with the current cell different
\* from the remembered anchor ends with that cell as remembered anchor and
\* registered (keeping a rank it had), and with the tried flags as the move
\* decision leaves them after a reset: Up clear, Left set exactly when the
\* step moved Left; a step that starts Idle at the remembered anchor clears
\* no tried flag.
C26_AnchorSync ==
  [][ (panic_mode' = 0 /\ lastMoveDir = 0) =>
        IF anchorA_mem # curA \/ anchorF_mem # curF
        THEN /\ anchorA_mem' = curA /\ anchorF_mem' = curF
             /\ anchorMatrix'[<<curA, curF>>] # 0
             /\ anchorMatrix[<<curA, curF>>] # 0 =>
                  anchorMatrix'[<<curA, curF>>] = anchorMatrix[<<curA, curF>>]
             /\ triedUpFromAnchor' = 0
             /\ triedLeftFromAnchor' = (IF lastMoveDir' = 1 THEN 1 ELSE 0)
        ELSE /\ triedLeftFromAnchor' >= triedLeftFromAnchor
             /\ triedUpFromAnchor' >= triedUpFromAnchor ]_vars

\* the same for the steps that take no wall branch
C26_AnchorSync_NoWall ==
  [][ (panic_mode' = 0 /\ lastMoveDir = 0 /\ hit_wall' = 0) =>
        IF anchorA_mem # curA \/ anchorF_mem # curF
        THEN /\ anchorA_mem' = curA /\ anchorF_mem' = curF
             /\ anchorMatrix'[<<curA, curF>>] # 0
             /\ anchorMatrix[<<curA, curF>>] # 0 =>
                  anchorMatrix'[<<curA, curF>>] = anchorMatrix[<<curA, curF>>]
             /\ triedUpFromAnchor' = 0
             /\ triedLeftFromAnchor' = (IF lastMoveDir' = 1 THEN 1 ELSE 0)
        ELSE /\ triedLeftFromAnchor' >= triedLeftFromAnchor
             /\ triedUpFromAnchor' >= triedUpFromAnchor ]_vars

\* C28: a normal step in which calm becomes latched ends with the current
\* cell (0,0).
C28_CalmLatchAtGoal ==
  [][ (panic_mode' = 0 /\ g_calm_reached = 0 /\ g_calm_reached' = 1)
      => (curA' = 0 /\ curF' = 0) ]_vars

\* the same for the steps that take no wall branch
C28_CalmLatchAtGoal_NoWall ==
  [][ (panic_mode' = 0 /\ g_calm_reached = 0 /\ g_calm_reached' = 1
       /\ hit_wall' = 0)
      => (curA' = 0 /\ curF' = 0) ]_vars

\* C30: once a step has issued a motor command, or the last motor command
\* is the current cell already, every step ends with the last motor command
\* (g_amp, g_freq) equal to the current cell (curA, curF).
C30_MotorMatchesCell ==
  [][ (sent' # <<>> \/ (g_amp = curA /\ g_freq = curF))
      => (g_amp' = curA' /\ g_freq' = curF') ]_vars

\* a step that commanded the cell beyond the wall and then the cell it
\* backtracked to: the motor is where the controller is
C30_Witness ==
  /\ trace = <<"wall_left", "backtrack">>
  /\ Len(sent) = 2 /\ sent[2] = <<curA, curF>>
  /\ g_amp = curA /\ g_freq = curF
  /\ curA > 0

\* C31: the first remembered anchor is the start cell (4,4); whenever the
\* remembered anchor changes afterwards, neither index grows; and a step
\* that backtracks ends on a cell with no index above the remembered
\* anchor's.
C31_AnchorsNeverRetreat ==
  [][ /\ (anchorA_mem' # anchorA_mem \/ anchorF_mem' # anchorF_mem) =>
           IF anchorA_mem = -1
           THEN anchorA_mem' = 4 /\ anchorF_mem' = 4
           ELSE anchorA_mem' <= anchorA_mem /\ anchorF_mem' <= anchorF_mem
      /\ InTrace("backtrack")' =>
           (curA' <= anchorA_mem' /\ curF' <= anchorF_mem') ]_vars

\* a probe that did not help was undone: the controller is back on the cell
\* left of its anchor, and that anchor is not the start cell any more
C31_Witness ==
  /\ trace = <<"backtrack">>
  /\ curA = anchorA_mem /\ curF = anchorF_mem - 1
  /\ anchorF_mem < 4
  /\ lastMoveDir = 0

\* the cells that have been registered, by the history of remembered
\* anchors: a registered cell holds a nonzero rank
Registered == {c \in Cells : anchorMatrix[c] # 0}

\* C32: at most 9 anchors are registered, every stored rank is between 1 and
\* 9, and the number of cells holding a rank is the anchor count.
C32_BoundedAnchorCount ==
  /\ anchorLevel <= 9
  /\ \A c \in Cells : anchorMatrix[c] \in 0..9
  /\ Cardinality(Registered) = anchorLevel

\* the longest chain: nine anchors from (4,4) down to the goal cell
C32_Witness ==
  /\ anchorLevel = 9
  /\ anchorMatrix[<<4, 4>>] = 9
  /\ anchorMatrix[<<0, 0>>] = 1

\* C33: from (4,4), idle and not in panic, a run in which no panic starts
\* and every pending move is judged improved eventually commands cell (0,0)
\* and latches calm-reached.
C33_ProgressUnderImprovement ==
  <>(/\ g_calm_reached = 1
     /\ curA = 0 /\ curF = 0
     /\ g_amp = 0 /\ g_freq = 0)

\* the step that commands (0,0) after four moves left and three moves up
C33_Witness ==
  /\ g_calm_reached = 1
  /\ InTrace("improved")
  /\ sent # <<>>
  /\ curA = 0 /\ curF = 0
  /\ anchorA_mem = 1 /\ anchorF_mem = 0
  /\ anchorLevel = 8

\* Left from (4,4) to (4,3) left the heart rate unchanged: probe at (3,4)
C21_Witness ==
  /\ trace = <<"reverse_diagonal">>
  /\ sent = << <<3, 4>> >>
  /\ prevA = 4 /\ prevF = 3
  /\ lastMoveDir = 2 /\ triedUpFromAnchor = 1

\* ------------------------------------------------------------------------
\* Properties of the transport (checked under SpecRx)
\* ------------------------------------------------------------------------
\* the latest receive_message call returned frame fr
Delivered(fr) ==
  /\ ret' = fr.len
  /\ g_src' = fr.src
  /\ g_len' = fr.len
  /\ \A i \in 1..fr.len : g_payload'[i] = fr.payload[i]

\* C8: a frame of length L <= 5 written by send_message_raw with the master
\* as destination and read by one receive_message call comes back with its
\* source, its length and its L payload bytes.
C8_RoundTrip ==
  [][ (/\ nrecv = 0 /\ nrecv' = 1
       /\ frames[1].dst = MSTR
       /\ frames[1].len <= MAX_PAY)
      => Delivered(frames[1]) ]_vars

\* a full-length frame has been read back
C8_Witness ==
  /\ nrecv = 1
  /\ frames[1].dst = MSTR /\ frames[1].len = MAX_PAY
  /\ ret = MAX_PAY
  /\ g_payload = frames[1].payload

\* C9: with a complete frame for another node followed by a complete frame
\* for the master in the stream, the first call consumes the whole first
\* frame and delivers nothing, the second call delivers the second frame.
C9_SkipMisaddressed ==
  [][ /\ (/\ nrecv = 0 /\ nrecv' = 1
          /\ frames[1].dst # MSTR)
         => /\ ret' = 0
            /\ rx' = Drop(rx, 3 + frames[1].len)
            /\ UNCHANGED <<g_src, g_len, g_payload>>
      /\ (/\ nrecv = 1 /\ nrecv' = 2
          /\ Len(frames) = 2
          /\ frames[1].dst # MSTR
          /\ frames[2].dst = MSTR
          /\ frames[2].len <= MAX_PAY)
         => Delivered(frames[2]) ]_vars

\* the spec's scenario: a 2-byte frame for another node, then a frame for
\* the master that has been delivered by the second call
C9_Witness ==
  /\ nrecv = 2
  /\ Len(frames) = 2
  /\ frames[1].dst = HRTBT /\ frames[1].len = 2
  /\ frames[1].payload = <<170, 171>>
  /\ frames[2].dst = MSTR /\ frames[2].len = 2
  /\ ret = 2 /\ g_src = frames[2].src
  /\ g_payload[1] = frames[2].payload[1]
  /\ g_payload[2] = frames[2].payload[2]
  /\ rx = <<>>

\* C29: the first receive_message call on a stream of complete frames
\* consumes exactly the 3 + LEN bytes of the first frame, whatever its
\* destination and its length byte.
C29_FramingAligned ==
  [][ (nrecv = 0 /\ nrecv' = 1)
      => rx' = Drop(rx, 3 + frames[1].len) ]_vars

\* ------------------------------------------------------------------------
\* Properties of request_heartbeat (checked under SpecReq)
\* ------------------------------------------------------------------------
\* C10: a value returned by request_heartbeat was sent by the node in answer
\* to that very request (the node answers request n with the value n), never
\* in answer to an earlier one.
C10_NoStaleReply ==
  (pc = "idle" /\ reqDst = HRTBT /\ result >= 0) => result = reqNo

\* a complete frame for the master from node dst with length >= 2 and first
\* payload byte cmd is at the head of the receive FIFO
ReplyAtHead(dst, cmd) ==
  /\ Len(rx) >= 5
  /\ rx[1] = MSTR /\ rx[2] = dst /\ rx[3] >= 2 /\ rx[4] = cmd
  /\ Len(rx) >= 3 + (IF rx[3] > MAX_PAY THEN MAX_PAY ELSE rx[3])

\* C11: a sensor request returns v >= 0 only by receiving, in its wait
\* loop, a frame for the master from the node asked, of length >= 2, whose
\* first payload byte is the command byte, and v is its second payload
\* byte; otherwise it returns -1, and only when the wait window is over.
C11_ReplyMatching ==
  [][ /\ (pc = "wait" /\ pc' = "idle") =>
           /\ result' >= 0 => (ReplyAtHead(HRTBT, ChH) /\ result' = rx[5])
           /\ result' < 0 => (result' = -1 /\ waited >= MaxWait)
      /\ (pc = "cwait" /\ pc' = "idle") =>
           /\ result' >= 0 => (ReplyAtHead(CRY, ChC) /\ result' = rx[5])
           /\ result' < 0 => (result' = -1 /\ waited >= MaxWaitCry) ]_vars

\* request_crying returned the value of a {'C', v} frame from the crying
\* node although an unrelated frame arrived on the bus
C11_Witness ==
  /\ pc = "idle" /\ reqDst = CRY /\ result >= 1
  /\ g_src = CRY /\ g_payload[1] = ChC /\ g_payload[2] = result
  /\ noise = 1

\* ------------------------------------------------------------------------
\* Properties of boot_ping (checked under SpecPing)
\* ------------------------------------------------------------------------
\* a complete frame for the master from node dst whose first payload byte
\* is 'A' is at the head of the receive FIFO
AckAtHead(dst) ==
  /\ Len(rx) >= 4
  /\ rx[1] = MSTR /\ rx[2] = dst /\ rx[3] >= 1 /\ rx[4] = ChA
  /\ Len(rx) >= 3 + (IF rx[3] > MAX_PAY THEN MAX_PAY ELSE rx[3])

\* C12: boot_ping(dst) returns 1 in the very iteration that receives a
\* frame for the master from dst with first payload byte 'A', returns 0 only
\* when its total budget is over without such a frame, and after returning
\* sends no probe and does not change its answer.
C12_PingOutcome ==
  [][ /\ (pingPc = "run" /\ pingPc' = "done") =>
           /\ pingResult' = 1 => (AckAtHead(pingDst) /\ pingWaited < MaxPingTotal)
           /\ pingResult' # 1 => (pingResult' = 0 /\ pingWaited >= MaxPingTotal)
      /\ (pingPc = "run" /\ pingWaited' = pingWaited + 1) =>
           ~AckAtHead(pingDst)
      /\ (pingPc = "done" /\ pingPc' = "done") =>
           UNCHANGED <<pingResult, probes>> ]_vars

\* the crying node was probed twice and found alive by its second
\* acknowledgement-free iteration; an acknowledgement of the heartbeat node
\* was passed over
C12_Witness ==
  /\ pingPc = "done" /\ pingDst = CRY /\ pingResult = 1
  /\ probes = 2
  /\ g_src = CRY /\ g_payload[1] = ChA

\* ------------------------------------------------------------------------
\* Properties of the decision mode (checked under SpecLoop)
\* ------------------------------------------------------------------------
\* the step is one iteration of the control loop
IsLoopIter == lpc = "loop" /\ iter' = iter + 1

\* C17: the heart-rate and crying values an iteration of the control loop
\* hands to controller_step are the latest successfully sampled values of
\* the two sensors.
C17_StaleValueOnTimeout ==
  [][ (IsLoopIter /\ stepped' = 1) =>
        (bpm_in' = goodBpm' /\ cry_in' = goodCry') ]_vars

\* C18: in the decision mode no request frame goes to a sensor node, and
\* no command frame to the motor node, whose boot probe returned 0.
C18_DeadModulesSkipped ==
  /\ hb_ok = 0 => hbReqs = 0
  /\ cry_ok = 0 => cryReqs = 0
  /\ mtr_ok = 0 => mtrCmds = 0

\* C19: an iteration of the control loop calls controller_step only when
\* the time since the recorded step time is at least the interval chosen
\* by the hit-boundary and regime flags, and the recorded step time never
\* decreases.
C19_StepCadence ==
  [][ IsLoopIter =>
        /\ stepped' = 1 =>
              now - stepTime >= Interval(hit_wall, is_crying_activated)
        /\ last_step_ms' >= last_step_ms ]_vars

\* C20: two consecutive heartbeat polls of the control loop are the poll
\* period apart, and there is more than one poll between two consecutive
\* calls of controller_step.
C20_PollCadence ==
  [][ IsLoopIter =>
        /\ now' - now = Ticks(VITALS_POLL_MS)
        /\ (stepped' = 1 /\ bpm_in >= 0) => polls + 1 >= 2 ]_vars

\* number of probes of a call that has run n iterations of its loop
ProbesAfter(n) == (n + MaxPingRetry - 1) \div MaxPingRetry

\* C27: boot_ping has sent a probe before its first receive, one more for
\* every MaxPingRetry iterations without a matching acknowledgement, and
\* never more than the budget of MaxPingTotal iterations allows.
C27_ProbeSchedule ==
  /\ pingPc = "run" => probes = ProbesAfter(pingWaited)
  /\ (pingPc = "done" /\ pingResult = 1) =>
        probes = ProbesAfter(pingWaited + 1)
  /\ (pingPc = "done" /\ pingResult = 0) =>
        probes = ProbesAfter(MaxPingTotal)
  /\ probes <= ProbesAfter(MaxPingTotal)

\* a call that got no acknowledgement returned 0 after the whole schedule
C27_Witness ==
  /\ pingPc = "done" /\ pingResult = 0
  /\ pingWaited = MaxPingTotal
  /\ probes = ProbesAfter(MaxPingTotal) /\ probes >= 2

\* ------------------------------------------------------------------------
\* Termination of request_heartbeat (checked under SpecCall)
\* ------------------------------------------------------------------------
\* C34: every call of request_heartbeat returns, whether or not the node
\* replies and whatever other frames arrive during the call.
C34_RequestsReturn == [](pc # "idle" => <>(pc = "idle"))

\* once the request has been sent, the call returns: the wait loop counts
\* its receive attempts
C34_WaitLoopReturns == [](pc = "wait" => <>(pc = "idle"))

\* a call is held in the loop of drain_my_rx with a frame to receive
C34_Draining == pc = "drain" /\ rx # <<>> /\ ret >= 0 /\ reqNo = 1

====
